---- MODULE Spec2Model ----
(***************************************************************************)
(* A model of the geonames bulk importer, server/geonames/import_data.py,  *)
(* and of the S3 dataset update, server/rest/s3_dataset.py.  The importer: *)
(* the record sanitizer and feature builder (export_chunk), the export     *)
(* sink (export_to_girder), the driver loop (read_geonames), the           *)
(* downloader (download_all_countries), the destination cache              *)
(* (minerva_collection, geonames_folder) and the progress reporter         *)
(* (progress_report, done_report).  The REST handler: updateDataset.       *)
(*                                                                         *)
(* The importer is single-threaded; each subsystem has its own             *)
(* specification (SpecChunk, SpecSink, SpecDriver, SpecDownload,           *)
(* SpecStore, SpecProgress, SpecDataset) over its own variables, the other *)
(* variables staying at their idle values.                                 *)
(***************************************************************************)
EXTENDS Integers, Sequences, FiniteSets, TLC

VARIABLES
    \* ---- export_chunk ----
    records,        \* the batch passed to export_chunk (dicts, mutated in place)
    ec_pc,          \* "ready" | "returned" | "raised"
    handlerCalls,   \* the feature lists the handler was called with, in order
    origin,         \* per feature handed over: index of its source record (history)
    printed,        \* number of "Invalid geometry" lines printed
    ec_input,       \* the batch as it was passed to export_chunk (history)
    \* ---- export_to_girder ----
    data,           \* the features passed to export_to_girder
    eg_pc,          \* "ready" | "returned" | "raised"
    calls,          \* store calls made: [op, idx, ok] in order
    items,          \* the item store: items persisted, in creation order
    errlog,         \* diagnostics written to sys.stderr, in order
    \* ---- read_geonames ----
    reader,         \* the chunks the reader has still to yield
    rg_pc,          \* "loop" | "returned" | "raised"
    rg_i,           \* enumerate() index of the next chunk
    exported,       \* the chunks handed to export_chunk so far (as read)
    progressCalls,  \* the counts progress() was called with
    doneCalls,      \* number of calls of done()
    rg_stream,      \* the chunks of the whole stream (history)
    \* ---- download_all_countries ----
    dl_pc,          \* "start" | "retrieving" | "retrieved" | "moving" | "finally"
                    \* | "returned" | "raised"
    tmpFile,        \* content of the temporary file
    destFile,       \* content of the destination file
    destBefore,     \* content of the destination file before the call (history)
    dl_blocks,      \* blocks urlretrieve has received
    dl_size,        \* blocks of the remote file
    dl_pending,     \* the exception in flight while the finally clause runs
    \* ---- minerva_collection / geonames_folder ----
    _collection,    \* module global: cached collection
    _folder,        \* module global: cached folder
    dbCollection,   \* the store's collection named 'minerva' ("none" when absent)
    dbFolder,       \* the store's folder named 'geonames' under it
    storeOps,       \* store operations made by the last call
    created,        \* createCollection and createFolder calls made so far
    lastCall,       \* the last call: what was called, what was cached then, what it returned
    nCalls,         \* number of calls so far
    \* ---- progress_report / done_report ----
    _tick,          \* module global: time of the first report of the session
    clock,          \* time.time()
    pr_n,           \* number of calls of progress_report and done_report so far
    written,        \* per stream, the number of writes to it
    lastReport,     \* what the last call of progress_report did
    firstAt,        \* time of the first report since the last done_report (history)
    pr_pc,          \* "idle" | "raised"
    \* ---- S3Dataset.updateDataset ----
    item,           \* the item as the store holds it (a dict)
    params,         \* the request's parameters (a dict, rewritten in place)
    ud_pc,          \* "ready" | "returned" | the name of the exception raised
    ud_request,     \* the parameters as the request brought them (history)
    ud_before       \* the item as stored before the call (history)

chunkVars == <<records, ec_pc, handlerCalls, origin, printed, ec_input>>
sinkVars == <<data, eg_pc, calls, items, errlog>>
driverVars == <<reader, rg_pc, rg_i, exported, progressCalls, doneCalls, rg_stream>>
downloadVars == <<dl_pc, tmpFile, destFile, destBefore, dl_blocks, dl_size, dl_pending>>
storeVars == <<_collection, _folder, dbCollection, dbFolder, storeOps, created, lastCall, nCalls>>
progressVars == <<_tick, clock, pr_n, written, lastReport, firstAt, pr_pc>>
datasetVars == <<item, params, ud_pc, ud_request, ud_before>>
vars == <<chunkVars, sinkVars, driverVars, downloadVars, storeVars, progressVars,
          datasetVars>>

----------------------------------------------------------------------------
(* Values of record fields.  A value is [t, v]: t its Python type, v its   *)
(* payload (a number, or the identity of a string or tuple).               *)

None == [t |-> "none", v |-> 0]
NaN == [t |-> "nan", v |-> 0]
Inf == [t |-> "inf", v |-> 1]
Num(n) == [t |-> "num", v |-> n]
Str(s) == [t |-> "str", v |-> s]
Tuple(s) == [t |-> "tuple", v |-> s]

\* _columns, in the order export_chunk walks them
_columns ==
    << "geonameid", "name", "asciiname", "alternatenames", "latitude",
       "longitude", "feature class", "feature code", "country code", "cc2",
       "admin1 code", "admin2 code", "admin3 code", "admin4 code",
       "population", "elevation", "dem", "timezone", "modification date" >>

ColumnSet == {_columns[i] : i \in 1..Len(_columns)}

\* dict helpers
Has(d, k) == k \in DOMAIN d
Get(d, k) == IF Has(d, k) THEN d[k] ELSE None
Pop(d, k) == [x \in (DOMAIN d) \ {k} |-> d[x]]

\* is_nan: a float that is neither <= 0 nor >= 0
is_nan(x) == x.t = "nan"

\* val <= 0 as Python 2 evaluates it: numbers compare by value, +inf is
\* greater, and a str or tuple orders after every number
LeqZero(val) == val.t = "num" /\ val.v <= 0

----------------------------------------------------------------------------
(* export_chunk                                                            *)

\* the empty test with NaN forgotten
EmptyFieldNoneOnly(val) == val = None

\* line 314: the field is empty (NaN or None)
EmptyField(val) == is_nan(val) \/ val = None

\* the not-sensible test with dem forgotten
NotSensibleFieldPopulationOnly(k, val) == k = "population" /\ LeqZero(val)

\* line 316: the field is a population or dem that is not positive
NotSensibleField(k, val) == k \in {"population", "dem"} /\ LeqZero(val)

\* "remove empty/invalid fields": the loop over _columns from column i on.
\* d.pop(k) of a key the dict does not hold raises KeyError.
RECURSIVE Sanitize(_, _)
Sanitize(d, i) ==
    IF i > Len(_columns) THEN [raised |-> FALSE, d |-> d]
    ELSE LET k == _columns[i]
             val == Get(d, k)
         IN  IF EmptyField(val)
             THEN IF Has(d, k) THEN Sanitize(Pop(d, k), i + 1)
                  ELSE [raised |-> TRUE, d |-> d]
             ELSE IF NotSensibleField(k, val)
                  THEN Sanitize(Pop(d, k), i + 1)
                  ELSE Sanitize(d, i + 1)

\* whether the sanitized record is rejected as an invalid geometry
InvalidGeometry(d) == ~Has(d, "longitude") \/ ~Has(d, "latitude")

\* the feature built of a sanitized record that has both coordinates
Feature(d) ==
    [type |-> "Feature",
     geometry |-> [type |-> "Point",
                   coordinates |-> <<d["longitude"], d["latitude"]>>],
     properties |-> Pop(Pop(d, "longitude"), "latitude")]

\* The loop over the records from record i on.  acc holds what the loop has
\* built so far: the features, the source index of each (history), the
\* records as mutated in place, and the number of lines printed.
RECURSIVE ChunkLoop(_, _, _)
ChunkLoop(recs, i, acc) ==
    IF i > Len(recs) THEN acc
    ELSE LET s == Sanitize(recs[i], 1)
             after == [acc.after EXCEPT ![i] = s.d]
         IN  IF s.raised
             THEN [acc EXCEPT !.raised = TRUE, !.after = after]
             ELSE IF InvalidGeometry(s.d)
                  THEN ChunkLoop(recs, i + 1,
                           [acc EXCEPT !.after = after, !.printed = @ + 1])
                  ELSE ChunkLoop(recs, i + 1,
                           [acc EXCEPT
                               !.after = [after EXCEPT ![i] =
                                   Pop(Pop(s.d, "longitude"), "latitude")],
                               !.features = Append(@, Feature(s.d)),
                               !.origin = Append(@, i)])

\* export_chunk up to its call of the handler
ChunkRun(recs) ==
    ChunkLoop(recs, 1,
        [raised |-> FALSE, features |-> <<>>, origin |-> <<>>,
         after |-> recs, printed |-> 0])

\* export_chunk(records, folder, user, handler) with a handler that records
\* what it is called with
ExportChunk ==
    /\ ec_pc = "ready"
    /\ LET r == ChunkRun(records)
       IN  /\ records' = r.after
           /\ printed' = r.printed
           /\ UNCHANGED ec_input
           /\ IF r.raised
              THEN /\ ec_pc' = "raised"
                   /\ UNCHANGED <<handlerCalls, origin>>
              ELSE /\ ec_pc' = "returned"
                   /\ handlerCalls' = Append(handlerCalls, r.features)
                   /\ origin' = r.origin
    /\ UNCHANGED <<sinkVars, driverVars, downloadVars, storeVars, progressVars,
                  datasetVars>>

----------------------------------------------------------------------------
(* export_to_girder                                                        *)

\* What the item store answers to the three calls made for one feature.
\* After a rejected createItem no other call is made for the feature.
StoreAnswers ==
    {[create |-> FALSE, meta |-> TRUE, geom |-> TRUE]} \cup
    {[create |-> TRUE, meta |-> m, geom |-> g] : m, g \in BOOLEAN}

\* the state of a run of export_to_girder before its first feature
SinkStart(store) ==
    [pc |-> "running", calls |-> <<>>, items |-> store, errlog |-> <<>>]

\* the three store calls for feature i once its name and description are
\* read, with a rejected setMetadata ending the work on the feature
FeatureCallsStopAtMetadata(i, ans, acc) ==
    IF ~ans.create
    THEN [acc EXCEPT
            !.pc = "returned",
            !.calls = Append(@, [op |-> "createItem", idx |-> i, ok |-> FALSE]),
            !.errlog = Append(@, "Failed to insert item")]
    ELSE IF ~ans.meta
    THEN [acc EXCEPT
            !.calls = @ \o <<[op |-> "createItem", idx |-> i, ok |-> TRUE],
                             [op |-> "setMetadata", idx |-> i, ok |-> FALSE]>>,
            !.items = Append(@, [idx |-> i, meta |-> FALSE, geo |-> FALSE]),
            !.errlog = Append(@, "Failed to write metadata")]
    ELSE [acc EXCEPT
            !.calls = @ \o <<[op |-> "createItem", idx |-> i, ok |-> TRUE],
                             [op |-> "setMetadata", idx |-> i, ok |-> TRUE],
                             [op |-> "updateItem", idx |-> i, ok |-> ans.geom]>>,
            !.items = Append(@, [idx |-> i, meta |-> TRUE, geo |-> ans.geom]),
            !.errlog = IF ans.geom THEN @
                       ELSE Append(@, "Failed to write geospatial data")]

\* the three store calls for feature i, with a rejected createItem logged
\* and skipped over instead of ending the run
FeatureCallsContinueAfterCreate(i, ans, acc) ==
    IF ~ans.create
    THEN [acc EXCEPT
            !.calls = Append(@, [op |-> "createItem", idx |-> i, ok |-> FALSE]),
            !.errlog = Append(@, "Failed to insert item")]
    ELSE [acc EXCEPT
            !.calls = @ \o <<[op |-> "createItem", idx |-> i, ok |-> TRUE],
                             [op |-> "setMetadata", idx |-> i, ok |-> ans.meta],
                             [op |-> "updateItem", idx |-> i, ok |-> ans.geom]>>,
            !.items = Append(@, [idx |-> i, meta |-> ans.meta, geo |-> ans.geom]),
            !.errlog = @ \o (IF ans.meta THEN <<>>
                             ELSE <<"Failed to write metadata">>)
                         \o (IF ans.geom THEN <<>>
                             ELSE <<"Failed to write geospatial data">>)]

\* lines 202-234: the three store calls for feature i once its name and
\* description are read.  A rejected createItem is logged and export_to_girder
\* returns; a rejected setMetadata or updateItem is logged and the loop goes
\* on.  An item records the feature it was created for and which of its
\* metadata and geometry were written.
FeatureCalls(i, ans, acc) ==
    IF ~ans.create
    THEN [acc EXCEPT
            !.pc = "returned",
            !.calls = Append(@, [op |-> "createItem", idx |-> i, ok |-> FALSE]),
            !.errlog = Append(@, "Failed to insert item")]
    ELSE [acc EXCEPT
            !.calls = @ \o <<[op |-> "createItem", idx |-> i, ok |-> TRUE],
                             [op |-> "setMetadata", idx |-> i, ok |-> ans.meta],
                             [op |-> "updateItem", idx |-> i, ok |-> ans.geom]>>,
            !.items = Append(@, [idx |-> i, meta |-> ans.meta, geo |-> ans.geom]),
            !.errlog = @ \o (IF ans.meta THEN <<>>
                             ELSE <<"Failed to write metadata">>)
                         \o (IF ans.geom THEN <<>>
                             ELSE <<"Failed to write geospatial data">>)]

\* The loop over the features from feature i on; plan[i] is what the store
\* answers for feature i.  d['properties']['name'] and
\* d['properties']['alternatenames'] raise KeyError when the key is missing.
RECURSIVE SinkLoop(_, _, _, _)
SinkLoop(feats, i, plan, acc) ==
    IF acc.pc # "running" THEN acc
    ELSE IF i > Len(feats) THEN [acc EXCEPT !.pc = "returned"]
    ELSE IF ~Has(feats[i].properties, "name")
              \/ ~Has(feats[i].properties, "alternatenames")
         THEN [acc EXCEPT !.pc = "raised"]
         ELSE SinkLoop(feats, i + 1, plan, FeatureCalls(i, plan[i], acc))

\* export_to_girder(data, folder, user)
ExportToGirder ==
    /\ eg_pc = "ready"
    /\ \E plan \in [1..Len(data) -> StoreAnswers] :
           LET r == SinkLoop(data, 1, plan, SinkStart(items))
           IN  /\ eg_pc' = r.pc
               /\ calls' = r.calls
               /\ items' = r.items
               /\ errlog' = r.errlog
    /\ UNCHANGED data
    /\ UNCHANGED <<chunkVars, driverVars, downloadVars, storeVars, progressVars,
                  datasetVars>>

----------------------------------------------------------------------------
(* read_geonames                                                           *)

\* chunksize, the default of read_geonames
chunksize == 100

\* n of read_geonames, the estimate of the number of rows
n_rows == 10200000

Max(a, b) == IF a >= b THEN a ELSE b

\* One turn of the loop over the reader: the chunk's records go through
\* export_chunk and its features, with the default handler, through
\* export_to_girder; then progress() is called with a message that reads
\* records[0]['name'] of the records export_chunk has mutated in place.
\* A KeyError raised on the way propagates out of read_geonames.
ReadChunk ==
    /\ rg_pc = "loop"
    /\ reader # <<>>
    /\ LET chunk == Head(reader)
           r == ChunkRun(chunk)
       IN  /\ reader' = Tail(reader)
           /\ exported' = Append(exported, chunk)
           /\ IF r.raised
              THEN /\ rg_pc' = "raised"
                   /\ UNCHANGED <<rg_i, progressCalls, calls, items, errlog>>
              ELSE \E plan \in [1..Len(r.features) -> StoreAnswers] :
                     LET s == SinkLoop(r.features, 1, plan, SinkStart(items))
                     IN  /\ calls' = s.calls
                         /\ items' = s.items
                         /\ errlog' = s.errlog
                         /\ IF s.pc = "raised" \/ ~Has(r.after[1], "name")
                            THEN /\ rg_pc' = "raised"
                                 /\ UNCHANGED <<rg_i, progressCalls>>
                            ELSE /\ rg_pc' = "loop"
                                 /\ rg_i' = rg_i + 1
                                 /\ progressCalls' = Append(progressCalls,
                                        [count |-> rg_i * chunksize,
                                         total |-> Max(rg_i * chunksize, n_rows)])
    /\ UNCHANGED <<doneCalls, rg_stream, data, eg_pc>>
    /\ UNCHANGED <<chunkVars, downloadVars, storeVars, progressVars,
                  datasetVars>>

\* the reader is exhausted: done() is called and read_geonames returns
ReadDone ==
    /\ rg_pc = "loop"
    /\ reader = <<>>
    /\ doneCalls' = doneCalls + 1
    /\ rg_pc' = "returned"
    /\ UNCHANGED <<reader, rg_i, exported, progressCalls, rg_stream>>
    /\ UNCHANGED <<chunkVars, sinkVars, downloadVars, storeVars, progressVars,
                  datasetVars>>

----------------------------------------------------------------------------
(* download_all_countries                                                  *)
(* A file is modelled by its content: "absent" (no such file), "old" (what  *)
(* the destination held before), "stale" (a temporary file left by an      *)
(* earlier run), "partial" (a prefix of the remote file) or "new" (the     *)
(* whole remote file).                                                     *)

\* leave the try block with an exception in flight
DownloadFails ==
    /\ dl_pending' = TRUE
    /\ dl_pc' = "finally"

\* urllib.urlretrieve opens the url, then creates the temporary file and
\* calls the report hook for block 0.  Opening the url may fail, before the
\* temporary file is touched; the hook (progress) may raise, after it.
RetrieveOpen ==
    /\ dl_pc = "start"
    /\ \/ /\ DownloadFails
          /\ UNCHANGED tmpFile
       \/ /\ tmpFile' = "partial"
          /\ DownloadFails
       \/ /\ tmpFile' = "partial"
          /\ dl_pc' = "retrieving"
          /\ UNCHANGED dl_pending
    /\ UNCHANGED <<destFile, destBefore, dl_blocks, dl_size>>
    /\ UNCHANGED <<chunkVars, sinkVars, driverVars, storeVars, progressVars,
                  datasetVars>>

\* urlretrieve reads a block, writes it to the temporary file and calls the
\* report hook; the read or the hook may fail (a transfer failure mid-stream)
RetrieveBlock ==
    /\ dl_pc = "retrieving"
    /\ dl_blocks < dl_size
    /\ \/ /\ DownloadFails
          /\ UNCHANGED <<tmpFile, dl_blocks>>
       \/ /\ dl_blocks' = dl_blocks + 1
          /\ tmpFile' = IF dl_blocks + 1 = dl_size THEN "new" ELSE "partial"
          /\ \/ DownloadFails
             \/ UNCHANGED <<dl_pc, dl_pending>>
    /\ UNCHANGED <<destFile, destBefore, dl_size>>
    /\ UNCHANGED <<chunkVars, sinkVars, driverVars, storeVars, progressVars,
                  datasetVars>>

\* urlretrieve returns and done() is called; done() may raise
RetrieveDone ==
    /\ dl_pc = "retrieving"
    /\ dl_blocks = dl_size
    /\ \/ DownloadFails
       \/ /\ dl_pc' = "moving"
          /\ UNCHANGED dl_pending
    /\ UNCHANGED <<tmpFile, destFile, destBefore, dl_blocks, dl_size>>
    /\ UNCHANGED <<chunkVars, sinkVars, driverVars, storeVars, progressVars,
                  datasetVars>>

\* shutil.move(tmp, dest): os.rename when dest is on the file system of the
\* temporary directory; otherwise the file is copied onto dest and then
\* unlinked.  The move may fail before dest is touched, or, when copying,
\* after a part of the file has been written onto dest.
Move ==
    /\ dl_pc = "moving"
    /\ \/ /\ destFile' = tmpFile
          /\ tmpFile' = "absent"
          /\ dl_pc' = "finally"
          /\ UNCHANGED dl_pending
       \/ /\ DownloadFails
          /\ UNCHANGED <<tmpFile, destFile>>
       \/ /\ DownloadFails
          /\ destFile' = "partial"
          /\ UNCHANGED tmpFile
    /\ UNCHANGED <<destBefore, dl_blocks, dl_size>>
    /\ UNCHANGED <<chunkVars, sinkVars, driverVars, storeVars, progressVars,
                  datasetVars>>

\* the finally clause: remove the temporary file if it exists, then return
\* dest or let the exception go on
Finally ==
    /\ dl_pc = "finally"
    /\ tmpFile' = "absent"
    /\ dl_pc' = IF dl_pending THEN "raised" ELSE "returned"
    /\ UNCHANGED <<destFile, destBefore, dl_blocks, dl_size, dl_pending>>
    /\ UNCHANGED <<chunkVars, sinkVars, driverVars, storeVars, progressVars,
                  datasetVars>>

----------------------------------------------------------------------------
(* minerva_collection and geonames_folder                                  *)
(* The store holds at most one collection named _collection_name and one   *)
(* folder named _folder_name under it; "none" stands for its absence and   *)
(* "None" for Python's None in the module globals and the arguments.       *)

_collection_name == "minerva"
_folder_name == "geonames"

NoCall == [fn |-> "none", cached |-> FALSE, returned |-> "None"]

\* What minerva_collection(user) does to the cache and the store, from the
\* cache c and the store's collection db: the store operations it makes,
\* the collection it returns and caches, and the store afterwards.
\* get_user() asks the store for its admins, _user being never set.
CollectionRun(user, c, db) ==
    IF c # "None" /\ user # "None"
    THEN [ops |-> <<>>, returned |-> c, cache |-> c, db |-> db, creates |-> 0]
    ELSE LET found == db
             lookups == <<"collection.findOne">>
                          \o (IF user = "None" THEN <<"user.getAdmins">> ELSE <<>>)
         IN  IF found = "none"
             THEN [ops |-> Append(lookups, "collection.createCollection"),
                   returned |-> _collection_name, cache |-> _collection_name,
                   db |-> _collection_name, creates |-> 1]
             ELSE [ops |-> lookups, returned |-> found, cache |-> found,
                   db |-> db, creates |-> 0]

\* minerva_collection(user=user)
MinervaCollection(user) ==
    LET r == CollectionRun(user, _collection, dbCollection)
    IN  /\ lastCall' = [fn |-> "minerva_collection",
                        cached |-> _collection # "None",
                        returned |-> r.returned]
        /\ storeOps' = r.ops
        /\ _collection' = r.cache
        /\ dbCollection' = r.db
        /\ created' = [created EXCEPT !.collection = @ + r.creates]
        /\ nCalls' = nCalls + 1
        /\ UNCHANGED <<_folder, dbFolder>>
        /\ UNCHANGED <<chunkVars, sinkVars, driverVars, downloadVars, progressVars,
                      datasetVars>>

\* geonames_folder(collection=collection); with collection=None the
\* collection comes from minerva_collection(public=public), user=None
GeonamesFolder(collection) ==
    /\ lastCall' = [fn |-> "geonames_folder",
                    cached |-> _folder # "None",
                    returned |-> IF _folder # "None" THEN _folder ELSE _folder_name]
    /\ nCalls' = nCalls + 1
    /\ IF _folder # "None"
       THEN /\ storeOps' = <<>>
            /\ UNCHANGED <<_collection, _folder, dbCollection, dbFolder, created>>
       ELSE LET r == IF collection = "None"
                     THEN CollectionRun("None", _collection, dbCollection)
                     ELSE [ops |-> <<>>, returned |-> collection,
                           cache |-> _collection, db |-> dbCollection,
                           creates |-> 0]
                make == dbFolder = "none"
            IN  /\ storeOps' = r.ops \o <<"folder.findOne">>
                        \o (IF make THEN <<"folder.createFolder">> ELSE <<>>)
                /\ _collection' = r.cache
                /\ dbCollection' = r.db
                /\ dbFolder' = _folder_name
                /\ _folder' = _folder_name
                /\ created' = [created EXCEPT
                                  !.collection = @ + r.creates,
                                  !.folder = @ + (IF make THEN 1 ELSE 0)]
    /\ UNCHANGED <<chunkVars, sinkVars, driverVars, downloadVars, progressVars,
                  datasetVars>>

----------------------------------------------------------------------------
(* progress_report and done_report                                         *)
(* Times are whole clock readings; NoTick stands for _tick = None.  A      *)
(* throughput is the pair of the count and the elapsed time it is divided  *)
(* by.                                                                     *)

NoTick == -1

\* the streams reports are written to: a terminal and one that is none
Streams == {"tty", "pipe"}
\* the terminal test forgotten: every stream taken for a terminal
IsattyAlways(stream) == stream \in Streams

Isatty(stream) == stream = "tty"

ZeroSpeed == [num |-> 0, den |-> 1]

\* Fractions num/den with den > 0 stand for the floats of the percentage.
\* a <= b, and Python's min(a, b) and max(a, b), which return a unless b is
\* strictly smaller (greater)
FracLeq(a, b) == a.num * b.den <= b.num * a.den
FracMin(a, b) == IF ~FracLeq(a, b) THEN b ELSE a
FracMax(a, b) == IF ~FracLeq(b, a) THEN b ELSE a

\* the clamps of line 137
PercentCap == [num |-> 1009, den |-> 10]
PercentFloor == [num |-> 0, den |-> 1]

\* the percentage with the upper clamp forgotten
PercentNoCap(count, total) ==
    FracMax([num |-> 100 * count, den |-> total], PercentFloor)

\* lines 136-137, for total > 0:
\* percent = 100.0 * float(count) / total, then max(min(percent, 100.9), 0.0)
Percent(count, total) ==
    FracMax(FracMin([num |-> 100 * count, den |-> total], PercentCap),
            PercentFloor)

\* '%4.1f' % percent for percent >= 0: the tenths of the percentage as
\* printed, the fraction rounded to the nearest tenth
Tenths(percent) == (20 * percent.num + percent.den) \div (2 * percent.den)

NoReport ==
    [kind |-> "none", stream |-> "tty", count |-> 0, total |-> 0,
     first |-> FALSE, speed |-> ZeroSpeed, shown |-> FALSE, at |-> 0,
     percent |-> PercentFloor, tenths |-> 0]

\* progress_report(count, total, message, unit, stream=stream) at the clock
\* reading `clock`.  It returns at once on a stream that is no terminal and
\* after writing "Unknown size" when total <= 0.  Otherwise the first report
\* of a session (_tick is None) has speed 0 and records the time, and a
\* later one divides count by the time since then, which raises
\* ZeroDivisionError when the clock still reads the recorded time.  The
\* message written holds the clamped percentage, printed to one decimal,
\* and the speed when a unit is given.
ProgressReport(count, total, unit, stream) ==
    /\ pr_pc = "idle"
    /\ pr_n' = pr_n + 1
    /\ UNCHANGED clock
    /\ LET said == [kind |-> "report", stream |-> stream, count |-> count,
                    total |-> total, first |-> firstAt = NoTick,
                    speed |-> ZeroSpeed, shown |-> unit # "None",
                    at |-> clock,
                    percent |-> IF total > 0 THEN Percent(count, total)
                                ELSE PercentFloor,
                    tenths |-> IF total > 0 THEN Tenths(Percent(count, total))
                               ELSE 0]
       IN  IF ~Isatty(stream)
           THEN /\ lastReport' = [said EXCEPT !.kind = "skipped", !.first = FALSE,
                                              !.percent = PercentFloor,
                                              !.tenths = 0]
                /\ UNCHANGED <<_tick, written, firstAt, pr_pc>>
           ELSE IF total <= 0
           THEN /\ lastReport' = [said EXCEPT !.kind = "unknown", !.first = FALSE]
                /\ written' = [written EXCEPT ![stream] = @ + 1]
                /\ UNCHANGED <<_tick, firstAt, pr_pc>>
           ELSE /\ firstAt' = IF firstAt = NoTick THEN clock ELSE firstAt
                /\ IF _tick = NoTick
                   THEN /\ _tick' = clock
                        /\ lastReport' = said
                        /\ written' = [written EXCEPT ![stream] = @ + 1]
                        /\ UNCHANGED pr_pc
                   ELSE IF clock - _tick = 0
                   THEN /\ pr_pc' = "raised"
                        /\ lastReport' = [said EXCEPT !.kind = "raised"]
                        /\ UNCHANGED <<_tick, written>>
                   ELSE /\ lastReport' =
                               [said EXCEPT !.speed = [num |-> count,
                                                       den |-> clock - _tick]]
                        /\ written' = [written EXCEPT ![stream] = @ + 1]
                        /\ UNCHANGED <<_tick, pr_pc>>
    /\ UNCHANGED <<chunkVars, sinkVars, driverVars, downloadVars, storeVars,
                  datasetVars>>

\* done_report(stream=stream): _tick is cleared, and a newline is written
\* when the stream is a terminal
DoneReport(stream) ==
    /\ pr_pc = "idle"
    /\ pr_n' = pr_n + 1
    /\ _tick' = NoTick
    /\ firstAt' = NoTick
    /\ written' = IF Isatty(stream) THEN [written EXCEPT ![stream] = @ + 1]
                  ELSE written
    /\ lastReport' = [NoReport EXCEPT !.kind = "done", !.stream = stream,
                                      !.at = clock]
    /\ UNCHANGED <<clock, pr_pc>>
    /\ UNCHANGED <<chunkVars, sinkVars, driverVars, downloadVars, storeVars,
                  datasetVars>>

----------------------------------------------------------------------------
(* S3Dataset.updateDataset (server/rest/s3_dataset.py).  A dict is a       *)
(* function on its keys; a value is [t, v]: t its Python type, v its text. *)

Unicode(s) == [t |-> "unicode", v |-> s]
List(s) == [t |-> "list", v |-> s]

\* an item without a 'meta' key, and a request without parameters
NoItem == [name |-> Unicode("item")]
NoParams == [k \in {} |-> Unicode("")]

\* json_util.loads(text): the list a JSON text denotes (named by its
\* canonical text), ValueError for a text that is no JSON
JsonValue == [x \in {"[]", "[1]", "[ 1 ]"} |->
                 IF x = "[]" THEN "[]" ELSE "[1]"]
IsJson(x) == x.v \in DOMAIN JsonValue
Loads(x) == List(JsonValue[x.v])

\* ObjectId(text): the id a hexadecimal text denotes, whatever the case of
\* its digits, InvalidId for any other text
HexValue == [x \in {"5a1", "5A1", "5b2"} |->
                IF x = "5b2" THEN "5b2" ELSE "5a1"]
IsObjectId(x) == x.v \in DOMAIN HexValue
ObjectId(x) == [t |-> "ObjectId", v |-> HexValue[x.v]]

\* line 141
whitelist_keys == {"selectedItems"}

\* lines 149-152: the (key, value) pairs of a dict outside the whitelist
PairsOf(d) == {<<k, d[k]>> : k \in (DOMAIN d) \ whitelist_keys}

\* the comparison looking one way only: pairs stored but not requested
DifferenceOneWay(a, b) == a \ b

\* set ^ set
Difference(a, b) == (a \ b) \cup (b \ a)

\* dict.update(other.items())
Update(d, other) ==
    [k \in (DOMAIN d) \cup (DOMAIN other) |->
        IF k \in DOMAIN other THEN other[k] ELSE d[k]]

\* Item.setMetadata(item, {'minerva': minerva_metadata}): the 'minerva' key
\* of the stored item's metadata is replaced, the other keys stay
SetMetadata(it, minerva_metadata) ==
    [it EXCEPT !["meta"] = Update(@, [minerva |-> minerva_metadata])]

\* updateDataset, lines 133-159.  The request's selectedItems and folderId
\* are parsed first (lines 136-138), each of which can raise; then the
\* item's minerva metadata is fetched and compared with the request outside
\* the whitelist, and updated and stored when they agree.
UpdateDataset ==
    /\ ud_pc = "ready"
    /\ UNCHANGED <<ud_request, ud_before>>
    /\ LET text == IF Has(params, "selectedItems")
                   THEN params["selectedItems"] ELSE Unicode("[]")
           loaded == Update(params, [selectedItems |-> Loads(text)])
           converted == [loaded EXCEPT !["folderId"] = ObjectId(@)]
           minerva_metadata == item["meta"]["minerva"]
       IN  IF ~IsJson(text)
           THEN /\ ud_pc' = "ValueError"
                /\ UNCHANGED <<item, params>>
           ELSE IF ~Has(loaded, "folderId")
           THEN /\ ud_pc' = "KeyError"
                /\ params' = loaded
                /\ UNCHANGED item
           ELSE IF ~IsObjectId(loaded["folderId"])
           THEN /\ ud_pc' = "InvalidId"
                /\ params' = loaded
                /\ UNCHANGED item
           ELSE /\ params' = converted
                /\ IF ~(Has(item, "meta") /\ Has(item["meta"], "minerva"))
                   THEN /\ ud_pc' = "RestException"
                        /\ UNCHANGED item
                   ELSE IF Difference(PairsOf(minerva_metadata),
                                      PairsOf(converted)) # {}
                   THEN /\ ud_pc' = "RestException"
                        /\ UNCHANGED item
                   ELSE /\ ud_pc' = "returned"
                        /\ item' = SetMetadata(item,
                                       Update(minerva_metadata, converted))
    /\ UNCHANGED <<chunkVars, sinkVars, driverVars, downloadVars, storeVars,
                   progressVars>>

----------------------------------------------------------------------------
(* Inputs of export_chunk                                                  *)

\* largest batch passed to export_chunk
MaxBatch == 2

\* a record of the reader: every declared column present, every value sound
BaseRecord ==
    [k \in ColumnSet |->
        CASE k = "geonameid" -> Num(1)
          [] k = "longitude" -> Num(1)
          [] k = "latitude" -> Num(2)
          [] k \in {"population", "elevation", "dem"} -> Num(1)
          [] k \in {"alternatenames", "cc2"} -> Tuple(0)
          [] OTHER -> Str(1)]

Absent == [t |-> "absent", v |-> 0]

\* d with d[k] = val, or without the key k when val is Absent
With(d, k, val) == IF val = Absent THEN Pop(d, k) ELSE [d EXCEPT ![k] = val]

\* records that differ from BaseRecord in their coordinates
GeoRecords ==
    {With(With(BaseRecord, "longitude", lon), "latitude", lat) :
        lon \in {Absent, None, NaN, Inf, Num(1)},
        lat \in {Absent, NaN, Num(2)}}

\* records that differ from BaseRecord in their numeric fields
NumRecords ==
    {With(With(With(BaseRecord, "population", p), "elevation", e), "dem", m) :
        p \in {None, Num(-1), Num(0), Num(1)},
        e \in {NaN, Num(-1), Num(1)},
        m \in {Num(-1), Num(1)}}

\* records that differ from BaseRecord in their name
NameRecords == {With(BaseRecord, "name", n) : n \in {Absent, NaN, Str(2)}}

Records == GeoRecords \cup NumRecords \cup NameRecords

\* the sequences over S of length 0..n
SeqsUpTo(S, n) == UNION {[1..m -> S] : m \in 0..n}

\* the idle values of the variables of each part
IdleChunk ==
    /\ records = <<>> /\ ec_pc = "idle" /\ handlerCalls = <<>>
    /\ origin = <<>> /\ printed = 0 /\ ec_input = <<>>
IdleSink ==
    /\ data = <<>> /\ eg_pc = "idle" /\ calls = <<>>
    /\ items = <<>> /\ errlog = <<>>
IdleDriver ==
    /\ reader = <<>> /\ rg_pc = "idle" /\ rg_i = 0 /\ exported = <<>>
    /\ progressCalls = <<>> /\ doneCalls = 0 /\ rg_stream = <<>>
IdleDownload ==
    /\ dl_pc = "idle" /\ tmpFile = "absent" /\ destFile = "absent"
    /\ destBefore = "absent" /\ dl_blocks = 0 /\ dl_size = 0
    /\ dl_pending = FALSE
IdleStore ==
    /\ _collection = "None" /\ _folder = "None" /\ dbCollection = "none"
    /\ dbFolder = "none" /\ storeOps = <<>>
    /\ created = [collection |-> 0, folder |-> 0]
    /\ lastCall = NoCall /\ nCalls = 0
IdleProgress ==
    /\ _tick = NoTick /\ clock = 0 /\ pr_n = 0
    /\ written = [stream \in Streams |-> 0]
    /\ lastReport = NoReport /\ firstAt = NoTick /\ pr_pc = "idle"
IdleDataset ==
    /\ item = NoItem /\ params = NoParams /\ ud_pc = "idle"
    /\ ud_request = NoParams /\ ud_before = NoItem

InitChunk ==
    /\ records \in SeqsUpTo(Records, MaxBatch)
    /\ ec_input = records
    /\ ec_pc = "ready"
    /\ handlerCalls = <<>>
    /\ origin = <<>>
    /\ printed = 0
    /\ IdleSink /\ IdleDriver /\ IdleDownload /\ IdleStore /\ IdleProgress
    /\ IdleDataset

NextChunk == ExportChunk

SpecChunk == InitChunk /\ [][NextChunk]_vars

----------------------------------------------------------------------------
(* Inputs of export_to_girder                                              *)

\* largest batch passed to export_to_girder
MaxFeatures == 3

\* the features export_chunk builds of a sound record, of one whose name is
\* NaN and of one whose alternatenames is None
SinkFeatures ==
    {Feature(Sanitize(r, 1).d) :
        r \in {BaseRecord, With(BaseRecord, "name", NaN),
               With(BaseRecord, "alternatenames", None)}}

InitSink ==
    /\ data \in SeqsUpTo(SinkFeatures, MaxFeatures)
    /\ eg_pc = "ready"
    /\ calls = <<>>
    /\ items = <<>>
    /\ errlog = <<>>
    /\ IdleChunk /\ IdleDriver /\ IdleDownload /\ IdleStore /\ IdleProgress
    /\ IdleDataset

NextSink == ExportToGirder

SpecSink == InitSink /\ [][NextSink]_vars

----------------------------------------------------------------------------
(* Inputs of read_geonames                                                 *)

\* most chunks of a stream, and most rows of a chunk
MaxChunks == 2
MaxRows == 2

\* rows as the reader yields them: every declared column present, an empty
\* name, longitude or population field read as NaN or None
DriverRecords ==
    {BaseRecord, With(BaseRecord, "name", NaN),
     With(BaseRecord, "longitude", NaN), With(BaseRecord, "population", None),
     With(With(BaseRecord, "name", NaN), "longitude", NaN)}

\* the reader yields no empty chunk
Chunks == SeqsUpTo(DriverRecords, MaxRows) \ {<<>>}

InitDriver ==
    /\ rg_stream \in SeqsUpTo(Chunks, MaxChunks)
    /\ reader = rg_stream
    /\ rg_pc = "loop"
    /\ rg_i = 0
    /\ exported = <<>>
    /\ progressCalls = <<>>
    /\ doneCalls = 0
    /\ data = <<>> /\ eg_pc = "idle" /\ calls = <<>>
    /\ items = <<>> /\ errlog = <<>>
    /\ IdleChunk /\ IdleDownload /\ IdleStore /\ IdleProgress
    /\ IdleDataset

NextDriver == ReadChunk \/ ReadDone

SpecDriver == InitDriver /\ [][NextDriver]_vars

----------------------------------------------------------------------------
(* Inputs of download_all_countries                                        *)

\* most blocks of the remote file
MaxBlocks == 4

InitDownload ==
    /\ dl_pc = "start"
    /\ tmpFile \in {"absent", "stale"}
    /\ destFile \in {"absent", "old"}
    /\ destBefore = destFile
    /\ dl_blocks = 0
    /\ dl_size \in 1..MaxBlocks
    /\ dl_pending = FALSE
    /\ IdleChunk /\ IdleSink /\ IdleDriver /\ IdleStore /\ IdleProgress
    /\ IdleDataset

NextDownload ==
    RetrieveOpen \/ RetrieveBlock \/ RetrieveDone \/ Move \/ Finally

SpecDownload == InitDownload /\ [][NextDownload]_vars

----------------------------------------------------------------------------
(* Inputs of minerva_collection and geonames_folder                        *)

\* most calls of minerva_collection and geonames_folder in one process
MaxCalls == 5

\* the store before the first call: nothing, the collection alone, or the
\* collection and its folder
InitStore ==
    /\ _collection = "None"
    /\ _folder = "None"
    /\ \E held \in {<<"none", "none">>, <<_collection_name, "none">>,
                     <<_collection_name, _folder_name>>} :
           dbCollection = held[1] /\ dbFolder = held[2]
    /\ storeOps = <<>>
    /\ created = [collection |-> 0, folder |-> 0]
    /\ lastCall = NoCall
    /\ nCalls = 0
    /\ IdleChunk /\ IdleSink /\ IdleDriver /\ IdleDownload /\ IdleProgress
    /\ IdleDataset

CallMinervaCollection ==
    /\ nCalls < MaxCalls
    /\ \E user \in {"None", "admin"} : MinervaCollection(user)

\* a collection can be passed to geonames_folder once the store holds it
CallGeonamesFolder ==
    /\ nCalls < MaxCalls
    /\ \E collection \in {"None"} \cup ({dbCollection} \ {"none"}) :
           GeonamesFolder(collection)

NextStore == CallMinervaCollection \/ CallGeonamesFolder

SpecStore == InitStore /\ [][NextStore]_vars

----------------------------------------------------------------------------
(* Inputs of progress_report and done_report                               *)

\* largest clock reading, and most calls of the reporter in one process
MaxClock == 3
MaxReports == 3

\* the counts and totals reports are made with
Counts == {-1, 1, 3}
Totals == {0, 2, 3}

InitProgress ==
    /\ _tick = NoTick
    /\ clock = 0
    /\ pr_n = 0
    /\ written = [stream \in Streams |-> 0]
    /\ lastReport = NoReport
    /\ firstAt = NoTick
    /\ pr_pc = "idle"
    /\ IdleChunk /\ IdleSink /\ IdleDriver /\ IdleDownload /\ IdleStore
    /\ IdleDataset

\* time.time() does not go back; two readings may be equal
Tick ==
    /\ clock < MaxClock
    /\ clock' = clock + 1
    /\ UNCHANGED <<_tick, pr_n, written, lastReport, firstAt, pr_pc>>
    /\ UNCHANGED <<chunkVars, sinkVars, driverVars, downloadVars, storeVars,
                  datasetVars>>

CallProgressReport ==
    /\ pr_n < MaxReports
    /\ \E count \in Counts, total \in Totals, unit \in {"None", "b"},
          stream \in Streams :
           ProgressReport(count, total, unit, stream)

CallDoneReport ==
    /\ pr_n < MaxReports
    /\ \E stream \in Streams : DoneReport(stream)

NextProgress == Tick \/ CallProgressReport \/ CallDoneReport

SpecProgress == InitProgress /\ [][NextProgress]_vars

----------------------------------------------------------------------------
(* Inputs of updateDataset                                                 *)

\* the minerva metadata createDataset stores (lines 110-117), selectedItems
\* as a later update may have left it
StoredMinerva ==
    {[original_type |-> Unicode("s3"), bucket |-> Unicode(bucket),
      prefix |-> Unicode("p"), assetstoreId |-> Unicode("as1"),
      folderId |-> ObjectId(Unicode(folderId)),
      selectedItems |-> List(selected)] :
        bucket \in {"a", "b"}, folderId \in {"5a1", "5b2"},
        selected \in {"[]", "[1]"}}

\* the items: without metadata, with metadata of another kind, datasets
StoredItems ==
    {NoItem, Update(NoItem, [meta |-> [note |-> Unicode("n")]])}
    \cup {Update(NoItem, [meta |-> [minerva |-> m, note |-> Unicode("n")]]) :
            m \in StoredMinerva}

\* a parameter the request does not carry
NoParam == "(absent)"

\* the requests: each parameter absent or one of a few texts
Requests ==
    {[k \in {k \in DOMAIN r : r[k] # NoParam} |-> Unicode(r[k])] :
        r \in [original_type : {NoParam, "s3"},
               bucket : {"a", "b"},
               prefix : {"p"},
               assetstoreId : {"as1"},
               folderId : {NoParam, "5a1", "5A1", "5b2", "xyz"},
               selectedItems : {NoParam, "[]", "[1]", "[ 1 ]", "nojson"},
               name : {NoParam, "n"}]}

InitDataset ==
    /\ item \in StoredItems
    /\ params \in Requests
    /\ ud_pc = "ready"
    /\ ud_request = params
    /\ ud_before = item
    /\ IdleChunk /\ IdleSink /\ IdleDriver /\ IdleDownload /\ IdleStore
    /\ IdleProgress

NextDataset == UpdateDataset

SpecDataset == InitDataset /\ [][NextDataset]_vars

----------------------------------------------------------------------------
(* Properties of export_chunk                                              *)

\* the features the handler was called with
Handed == handlerCalls[1]
\* the record, as passed, that feature j was built of
SourceOf(j) == ec_input[origin[j]]

\* a record whose longitude or latitude is missing: key absent, None or NaN
MissingCoordinate(r) ==
    \E k \in {"longitude", "latitude"} : ~Has(r, k) \/ r[k] = None \/ r[k] = NaN

\* the indices, from i on, of the records of s that miss no coordinate
RECURSIVE WithCoordinates(_, _)
WithCoordinates(s, i) ==
    IF i > Len(s) THEN <<>>
    ELSE IF MissingCoordinate(s[i]) THEN WithCoordinates(s, i + 1)
         ELSE <<i>> \o WithCoordinates(s, i + 1)

\* every record of the batch holds every column but, possibly, a coordinate
OnlyCoordinatesAbsent ==
    \A i \in 1..Len(ec_input) :
        ColumnSet \ {"longitude", "latitude"} \subseteq DOMAIN ec_input[i]

\* C1: in a batch whose records lack nothing but coordinates, a record with a
\* missing longitude or latitude (key absent, None or NaN) yields no feature
\* and no exception: export_chunk returns having called the handler once
\* with the features of exactly the other records, in input order.
C1_MissingCoordinateSkipped ==
    (ec_pc \in {"returned", "raised"} /\ OnlyCoordinatesAbsent)
        => /\ ec_pc = "returned"
           /\ Len(handlerCalls) = 1
           /\ origin = WithCoordinates(ec_input, 1)

C7_PointOfFiniteLonLat ==
    ec_pc = "returned" =>
        \A j \in 1..Len(Handed) :
            /\ Handed[j].geometry.type = "Point"
            /\ Has(SourceOf(j), "longitude") /\ Has(SourceOf(j), "latitude")
            /\ Handed[j].geometry.coordinates =
                   <<SourceOf(j)["longitude"], SourceOf(j)["latitude"]>>
            /\ \A c \in 1..2 : Handed[j].geometry.coordinates[c].t = "num"
            /\ ~Has(Handed[j].properties, "longitude")
            /\ ~Has(Handed[j].properties, "latitude")

\* C8: of a record that holds every declared column, the columns whose value
\* is NaN or None are not among the properties of its feature, and every
\* other column, the coordinates and the non-positive population, elevation
\* and dem aside, is among them with its value unchanged.
C8_EmptyDroppedOthersKept ==
    ec_pc = "returned" =>
        \A j \in 1..Len(Handed) :
            DOMAIN SourceOf(j) = ColumnSet =>
                \A k \in ColumnSet :
                    LET val == SourceOf(j)[k]
                    IN  /\ (val = NaN \/ val = None)
                            => ~Has(Handed[j].properties, k)
                        /\ (/\ val # NaN /\ val # None
                            /\ k \notin {"longitude", "latitude"}
                            /\ ~(k \in {"population", "elevation", "dem"}
                                   /\ LeqZero(val)))
                            => /\ Has(Handed[j].properties, k)
                               /\ Handed[j].properties[k] = val

\* a feature was built of a complete record with a NaN field, a None field
\* and a name
C8_Witness ==
    /\ ec_pc = "returned"
    /\ \E j \in 1..Len(Handed) :
           /\ DOMAIN SourceOf(j) = ColumnSet
           /\ \E k \in ColumnSet : SourceOf(j)[k] = NaN
           /\ \E k \in ColumnSet : SourceOf(j)[k] = None
           /\ SourceOf(j)["name"] = Str(1)

----------------------------------------------------------------------------
(* Properties of export_to_girder                                          *)

\* a call of op was made for feature j (and answered ok, for CalledOk)
Called(op, j) == \E n \in 1..Len(calls) : calls[n].op = op /\ calls[n].idx = j
CalledOk(op, j) ==
    \E n \in 1..Len(calls) : calls[n].op = op /\ calls[n].idx = j /\ calls[n].ok
\* a setMetadata or updateItem call for feature j was rejected
WriteFailed(j) ==
    \E n \in 1..Len(calls) :
        calls[n].op \in {"setMetadata", "updateItem"} /\ calls[n].idx = j /\ ~calls[n].ok
\* feature j has the properties its item's name and description are read from
Nameable(j) ==
    Has(data[j].properties, "name") /\ Has(data[j].properties, "alternatenames")

\* C3: once createItem is rejected for feature k, export_to_girder has
\* returned without raising, the rejected call is the last store call (none
\* follows for feature k or a later one), and the store holds the items of
\* exactly the features 1..k-1, in order.
C3_CreateRejectionAbandonsBatch ==
    \A n \in 1..Len(calls) :
        (calls[n].op = "createItem" /\ ~calls[n].ok) =>
            /\ eg_pc = "returned"
            /\ n = Len(calls)
            /\ \A m \in 1..(n - 1) : calls[m].idx < calls[n].idx
            /\ Len(items) = calls[n].idx - 1
            /\ \A j \in 1..Len(items) : items[j].idx = j

\* createItem was rejected for the second of three features
C3_Witness ==
    /\ Len(data) = 3
    /\ \E n \in 1..Len(calls) :
           calls[n].op = "createItem" /\ ~calls[n].ok /\ calls[n].idx = 2

\* C4 as stated, for a batch whose features all have a name and
\* alternatenames: after a rejected setMetadata or updateItem for feature j,
\* export_to_girder does not raise and createItem is attempted for every
\* later feature; after a rejected setMetadata, updateItem is still called
\* for feature j.
C4_WriteFailureKeepsWholeBatch ==
    (\A i \in 1..Len(data) : Nameable(i)) =>
        \A j \in 1..Len(data) :
            WriteFailed(j) =>
                /\ eg_pc # "raised"
                /\ \A later \in (j + 1)..Len(data) : Called("createItem", later)
                /\ Called("updateItem", j)

\* C4 amended: after a rejected setMetadata or updateItem for feature j the
\* loop goes on: createItem is attempted for each later feature that has a
\* name and alternatenames, provided the features between them got their
\* items; updateItem is called for feature j whatever setMetadata did; and
\* export_to_girder raises only on a feature without name or alternatenames,
\* never on a store failure.
C4_WriteFailureGoesOn ==
    /\ \A j \in 1..Len(data) :
        WriteFailed(j) =>
            /\ Called("updateItem", j)
            /\ \A later \in (j + 1)..Len(data) :
                   ((\A m \in (j + 1)..(later - 1) : CalledOk("createItem", m))
                        /\ Nameable(later))
                      => Called("createItem", later)
    /\ eg_pc = "raised" =>
           /\ Len(items) < Len(data)
           /\ ~Nameable(Len(items) + 1)
           /\ \A n \in 1..Len(calls) : calls[n].op = "createItem" => calls[n].ok

\* setMetadata was rejected for the first feature and updateItem for the
\* second of three, and createItem was attempted for the third
C4_Witness ==
    /\ Len(data) = 3
    /\ \E n \in 1..Len(calls) :
           calls[n].op = "setMetadata" /\ calls[n].idx = 1 /\ ~calls[n].ok
    /\ \E n \in 1..Len(calls) :
           calls[n].op = "updateItem" /\ calls[n].idx = 2 /\ ~calls[n].ok
    /\ Called("createItem", 3)

----------------------------------------------------------------------------
(* Properties of read_geonames                                             *)

\* C5: whatever fields of the rows are NaN or None (the name included), no
\* exception leaves read_geonames: the chunks handed to export_chunk are
\* always the chunks read so far, once each and in stream order, done() is
\* not called before the stream is exhausted, and read_geonames returns with
\* every chunk handed over and done() called exactly once.
C5_EveryChunkExportedThenDone ==
    /\ rg_pc # "raised"
    /\ exported \o reader = rg_stream
    /\ rg_pc = "loop" => doneCalls = 0
    /\ rg_pc = "returned" => (exported = rg_stream /\ doneCalls = 1)

----------------------------------------------------------------------------
(* Properties of download_all_countries                                    *)

\* C6: when download_all_countries has raised, the temporary file does not
\* exist and the destination holds what it held before the call; when it has
\* returned, the destination holds the downloaded file and the temporary file
\* does not exist.
C6_CleanupAndDestination ==
    /\ dl_pc = "raised" => (tmpFile = "absent" /\ destFile = destBefore)
    /\ dl_pc = "returned" => (tmpFile = "absent" /\ destFile = "new")

----------------------------------------------------------------------------
(* Properties of minerva_collection and geonames_folder                    *)

\* C9: the store is asked to create the collection at most once and the
\* folder at most once, and a call made when its entity was already cached
\* returns the cached entity without any store operation.
C9_CreatedOnceThenCached ==
    /\ created.collection <= 1
    /\ created.folder <= 1
    /\ lastCall.cached =>
           /\ storeOps = <<>>
           /\ lastCall.returned =
                  (IF lastCall.fn = "minerva_collection" THEN _collection ELSE _folder)

----------------------------------------------------------------------------
(* Properties of progress_report and done_report                           *)

\* C10: no report on a terminal with total > 0 fails; the recorded time is
\* that of the first such report since the last done_report (none after a
\* done_report, whatever its stream); the first report has throughput 0 and
\* every later one the count divided by the time since the first.
C10_ThroughputSinceFirstReport ==
    /\ pr_pc # "raised"
    /\ _tick = firstAt
    /\ lastReport.kind = "done" => _tick = NoTick
    /\ lastReport.kind = "report" =>
           IF lastReport.first
           THEN lastReport.speed = ZeroSpeed /\ firstAt = lastReport.at
           ELSE /\ lastReport.speed.num = lastReport.count
                /\ lastReport.speed.den = lastReport.at - firstAt
                /\ lastReport.speed.den # 0

\* C11: the percentage of every report written on a terminal with total > 0
\* lies in [0, 100.9], as computed and as printed to one decimal, whatever
\* the count (greater than the total and negative included).
C11_PercentClamped ==
    lastReport.kind = "report" =>
        /\ lastReport.total > 0
        /\ FracLeq(PercentFloor, lastReport.percent)
        /\ FracLeq(lastReport.percent, PercentCap)
        /\ lastReport.tenths \in 0..1009

\* a report was written for a count greater than its total: 100.9 percent
C11_Witness ==
    /\ lastReport.kind = "report"
    /\ lastReport.count > lastReport.total
    /\ lastReport.tenths = 1009

\* C12: on a stream that is not an interactive terminal nothing is ever
\* written, by progress_report or by done_report, and every progress_report
\* call on such a stream leaves the session timestamp _tick as it was.
C12_NonTerminalSilent ==
    /\ [](\A stream \in Streams : stream # "tty" => written[stream] = 0)
    /\ [][\A stream \in Streams \ {"tty"} :
            (\E count \in Counts, total \in Totals, unit \in {"None", "b"} :
                ProgressReport(count, total, unit, stream))
            => _tick' = _tick]_vars

\* progress_report has returned early for a stream that is no terminal
\* while a session timestamp was recorded
C12_Witness ==
    /\ lastReport.kind = "skipped"
    /\ lastReport.stream = "pipe"
    /\ _tick # NoTick
    /\ written["pipe"] = 0

----------------------------------------------------------------------------
(* Properties of updateDataset                                             *)

====
